---- MODULE Spec2Model ----
(***************************************************************************)
(* Model of the profiling harness of src/src/main.rs: one `main` that      *)
(* validates its arguments, resets the report directory, stages the        *)
(* embedded profiler into a temporary directory, runs python on it, and    *)
(* maps the child's termination to its own exit code.                      *)
(*                                                                         *)
(* Every statement of main with an effect is one action of a harness       *)
(* process p.  The filesystem (report directory, temporary directories)    *)
(* is shared state.  Library calls are modelled by their result sets:      *)
(* every fallible call can succeed or return Err.  Paths and arguments are *)
(* taken to be valid Unicode.                                              *)
(***************************************************************************)
EXTENDS Integers, Sequences, FiniteSets, TLC

\* ------------------------------------------------------------------ bounds
NumProcs == 2
MaxRuns == 2
MaxArgs == 3
MaxChildCode == 3

\* --------------------------------------------------------------- constants
Procs == 1..NumProcs
Harness == 1

Program == "harness"
Tokens == {"run.py", "--input"}
Names == {"report.json", "report.html"}

NoFile == -1
NoExit == -1
NoCode == -1
NoDir == "none"

TmpNames == {"/tmp/.tmpA", "/tmp/.tmpB"}
ReportDir == "exe_dir/../../report"
PROFILER_PY == <<"import", "cProfile">>

Writers == 0..MaxRuns

\* The exit codes a child can report: status.code() is Some(n), 0 <= n <= 255.
MaxExitStatus == 255
ChildCodes == 0..MaxChildCode \cup {MaxExitStatus}

VARIABLES
    pc,         \* pc[p]: the statement of main process p is at
    run,        \* run[p]: the number of the invocation p is executing
    args,       \* args[p]: env::args(), program name first
    failed,     \* failed[p]: the call that returned Err, or "none"
    injected,   \* injected[p]: that Err was an environment I/O fault
    exitCode,   \* exitCode[p]: exit code of the harness process
    tmpDir,     \* tmpDir[p]: the TempDir held by main
    argv,       \* argv[p]: the arguments added to cmd
    child,      \* child[p]: "none", "running", "exited", "signaled"
    childCode,  \* childCode[p]: exit code of the child
    out,        \* out[p]: the messages printed, in order
    ops,        \* ops[p]: the statements of main executed, in order
    wrote,      \* wrote[p]: the report files p's child has written
    before,     \* before[p]: the report directory when the run began
    atLaunch,   \* atLaunch[p]: the report directory when the child started
    ws,         \* the report directory
    tmp,        \* the temporary directories
    runs        \* invocations begun so far

vars == <<pc, run, args, failed, injected, exitCode, tmpDir, argv, child,
          childCode, out, ops, wrote, before, atLaunch, ws, tmp, runs>>

procVars == <<pc, run, args, failed, injected, exitCode, tmpDir, argv, child,
              childCode, out, ops, before, atLaunch>>

\* -------------------------------------------------------------- filesystem
NoFiles == [n \in Names |-> NoFile]
Absent == [kind |-> "absent", files |-> NoFiles]
RegularFile == [kind |-> "file", files |-> NoFiles]
EmptyDir == [kind |-> "dir", files |-> NoFiles]
Dir(f) == [kind |-> "dir", files |-> f]

NoTmp == [exists |-> FALSE, file |-> FALSE, data |-> <<>>]
FreshTmp == [exists |-> TRUE, file |-> FALSE, data |-> <<>>]

SeqsUpTo(S, n) == UNION {[1..k -> S] : k \in 0..n}
ArgVectors == {<<Program>> \o s : s \in SeqsUpTo(Tokens, MaxArgs)}

\* Two harness processes can overlap.  What they are given: the two shortest
\* command lines, a report path that is absent or a directory holding an old
\* report, and a child that writes report.json and exits with 0 or 1 or is
\* killed.
ConcProcs == {1, 2}
ConcArgVectors == {<<Program>>, <<Program, "run.py">>}
ConcWorkspaces == {Absent, Dir([n \in Names |-> 0])}
ConcNames == {"report.json"}
ConcChildCodes == {0, 1}

InitialWorkspaces ==
    {Absent, RegularFile} \cup {Dir(f) : f \in [Names -> {NoFile, 0}]}

\* Path::exists()
ReportDirNeverExists(w) == FALSE
ReportDirExists(w) == w.kind # "absent"

\* What a failed recursive removal can leave behind.
PartialRemovals(f) ==
    {g \in [Names -> Writers \cup {NoFile}] :
        \A n \in Names : g[n] \in {f[n], NoFile}}

RemoveDirAllKeepsContent(w) == {[ok |-> TRUE, ws |-> w, fault |-> FALSE]}

\* fs::remove_dir_all: removes a directory and its content; Err on a path that
\* is not a directory, and Err (content partly removed) on an I/O fault.
RemoveDirAll(w) ==
    IF w.kind = "dir"
    THEN {[ok |-> TRUE, ws |-> Absent, fault |-> FALSE]}
         \cup {[ok |-> FALSE, ws |-> Dir(g), fault |-> TRUE] :
                  g \in PartialRemovals(w.files)}
    ELSE {[ok |-> FALSE, ws |-> w, fault |-> FALSE]}

\* fs::create_dir_all: Ok on an existing directory, creates a missing one,
\* Err on a path that is a regular file, and Err on an I/O fault.
CreateDirAll(w) ==
    CASE w.kind = "dir" -> {[ok |-> TRUE, ws |-> w, fault |-> FALSE]}
      [] w.kind = "absent" -> {[ok |-> TRUE, ws |-> EmptyDir, fault |-> FALSE],
                               [ok |-> FALSE, ws |-> w, fault |-> TRUE]}
      [] OTHER -> {[ok |-> FALSE, ws |-> w, fault |-> FALSE]}

TempDirAnyName(t) ==
    {[ok |-> TRUE, dir |-> d, tmp |-> [t EXCEPT ![d] = FreshTmp], fault |-> FALSE] :
        d \in TmpNames}
    \cup {[ok |-> FALSE, dir |-> NoDir, tmp |-> t, fault |-> TRUE]}

\* tempfile::tempdir(): a directory under a name nothing else has, or Err.
TempDir(t) ==
    {[ok |-> TRUE, dir |-> d, tmp |-> [t EXCEPT ![d] = FreshTmp], fault |-> FALSE] :
        d \in {e \in TmpNames : ~t[e].exists}}
    \cup {[ok |-> FALSE, dir |-> NoDir, tmp |-> t, fault |-> TRUE]}

\* temp_dir.path().join("profiler_wrapper.py").to_str()
ProfilerPath(d) ==
    CASE d = "/tmp/.tmpA" -> "/tmp/.tmpA/profiler_wrapper.py"
      [] d = "/tmp/.tmpB" -> "/tmp/.tmpB/profiler_wrapper.py"
      [] OTHER -> "profiler_wrapper.py"

\* fs::File::create: creates or truncates the file, or Err.
FileCreate(t, d) ==
    IF d \in TmpNames /\ t[d].exists
    THEN {[ok |-> TRUE, tmp |-> [t EXCEPT ![d] = [exists |-> TRUE, file |-> TRUE, data |-> <<>>]],
           fault |-> FALSE],
          [ok |-> FALSE, tmp |-> t, fault |-> TRUE]}
    ELSE {[ok |-> FALSE, tmp |-> t, fault |-> FALSE]}

WriteAllShort(t, d, bytes) ==
    {[ok |-> TRUE, tmp |-> [t EXCEPT ![d].data = SubSeq(bytes, 1, Len(bytes) - 1)],
      fault |-> FALSE]}

\* f.write_all(bytes): all the bytes, or Err after a strict prefix of them.
WriteAll(t, d, bytes) ==
    IF d \in TmpNames /\ t[d].file
    THEN {[ok |-> TRUE, tmp |-> [t EXCEPT ![d].data = bytes], fault |-> FALSE]}
         \cup {[ok |-> FALSE, tmp |-> [t EXCEPT ![d].data = SubSeq(bytes, 1, k)],
                fault |-> TRUE] : k \in 0..(Len(bytes) - 1)}
    ELSE {[ok |-> FALSE, tmp |-> t, fault |-> FALSE]}

DropTempDirLeaks(t, d) == t

\* Drop of the TempDir: the directory and the staged file are removed.
DropTempDir(t, d) == IF d \in TmpNames THEN [t EXCEPT ![d] = NoTmp] ELSE t


\* ------------------------------------------------------------ main's logic
\* args.len() < 2
UsageErrorNoArgs(a) == Len(a) < 1
UsageError(a) == Len(a) < 2

\* The `?` operator: an Err returns from main.
IsErrIgnored(r) == FALSE
IsErr(r) == ~r.ok

\* Termination of main's anyhow::Result: Ok is exit code 0, Err is 1.
MainExitCodeAlwaysZero(ok) == 0
MainExitCode(ok) == IF ok THEN 0 ELSE 1

\* std::process::exit(code): the low eight bits reach the parent.
ProcessExit(code) == code % 256

\* status.success()
StatusSuccessAnyExit(st, code) == st = "exited"
StatusSuccess(st, code) == st = "exited" /\ code = 0

\* main.rs 60-72 only reads report_dir, to print the artifact paths: the
\* report directory is the same after the status was handled.
ReportDirRemovedOnFailure(w, success) == IF success THEN w ELSE Absent
ReportDirAfterStatus(w, success) == w

\* status.code().unwrap_or(1)
FailureExitCodeAlwaysOne(st, code) == 1
FailureExitCodeOrZero(st, code) == IF st = "exited" THEN code ELSE 0
FailureExitCode(st, code) == IF st = "exited" THEN code ELSE 1

\* cmd.arg(profiler_path).arg("--report-dir").arg(report_dir).arg("--").arg(&args[1])
CmdBase(a, d) == <<ProfilerPath(d), "--report-dir", ReportDir, "--", a[2]>>

\* for a in args.iter().skip(n) { cmd.arg(a); }   (i is the 1-based position)
RECURSIVE ForwardArgs(_, _, _)
ForwardArgs(cmd, a, i) ==
    IF i > Len(a) THEN cmd ELSE ForwardArgs(Append(cmd, a[i]), a, i + 1)

CmdArgsSkipOne(a, d) == ForwardArgs(CmdBase(a, d), a, 2)
CmdArgs(a, d) == ForwardArgs(CmdBase(a, d), a, 3)

\* ------------------------------------------------------------------- Init
Init ==
    /\ pc = [p \in Procs |-> "idle"]
    /\ run = [p \in Procs |-> 0]
    /\ args = [p \in Procs |-> <<>>]
    /\ failed = [p \in Procs |-> "none"]
    /\ injected = [p \in Procs |-> FALSE]
    /\ exitCode = [p \in Procs |-> NoExit]
    /\ tmpDir = [p \in Procs |-> NoDir]
    /\ argv = [p \in Procs |-> <<>>]
    /\ child = [p \in Procs |-> "none"]
    /\ childCode = [p \in Procs |-> NoCode]
    /\ out = [p \in Procs |-> <<>>]
    /\ ops = [p \in Procs |-> <<>>]
    /\ wrote = [p \in Procs |-> {}]
    /\ before = [p \in Procs |-> Absent]
    /\ atLaunch = [p \in Procs |-> Absent]
    /\ ws \in InitialWorkspaces
    /\ tmp = [d \in TmpNames |-> NoTmp]
    /\ runs = 0

\* ---------------------------------------------------------------- actions
\* The harness is invoked: a new process image, with the filesystem as the
\* previous invocations left it.
Invoke(p, a) ==
    /\ pc[p] \in {"idle", "done"}
    /\ runs < MaxRuns
    /\ runs' = runs + 1
    /\ run' = [run EXCEPT ![p] = runs + 1]
    /\ args' = [args EXCEPT ![p] = a]
    /\ pc' = [pc EXCEPT ![p] = "args"]
    /\ failed' = [failed EXCEPT ![p] = "none"]
    /\ injected' = [injected EXCEPT ![p] = FALSE]
    /\ exitCode' = [exitCode EXCEPT ![p] = NoExit]
    /\ tmpDir' = [tmpDir EXCEPT ![p] = NoDir]
    /\ argv' = [argv EXCEPT ![p] = <<>>]
    /\ child' = [child EXCEPT ![p] = "none"]
    /\ childCode' = [childCode EXCEPT ![p] = NoCode]
    /\ out' = [out EXCEPT ![p] = <<>>]
    /\ ops' = [ops EXCEPT ![p] = <<>>]
    /\ wrote' = [wrote EXCEPT ![p] = {}]
    /\ before' = [before EXCEPT ![p] = ws]
    /\ atLaunch' = [atLaunch EXCEPT ![p] = Absent]
    /\ UNCHANGED <<ws, tmp>>

Begin(p) == \E a \in ArgVectors : Invoke(p, a)

\* An invocation that may overlap others; the command lines are the two
\* shortest ones.
BeginConcurrent(p) == \E a \in ConcArgVectors : Invoke(p, a)

\* main.rs 10-17
CheckArgs(p) ==
    /\ pc[p] = "args"
    /\ ops' = [ops EXCEPT ![p] = Append(@, "args")]
    /\ IF UsageError(args[p])
       THEN /\ out' = [out EXCEPT ![p] = Append(@, "usage")]
            /\ exitCode' = [exitCode EXCEPT ![p] = ProcessExit(2)]
            /\ pc' = [pc EXCEPT ![p] = "done"]
       ELSE /\ pc' = [pc EXCEPT ![p] = "current_exe"]
            /\ UNCHANGED <<out, exitCode>>
    /\ UNCHANGED <<wrote, run, args, failed, injected, tmpDir, argv, child, childCode,
                   before, atLaunch, ws, tmp, runs>>

QuestionRetries(p, step, r, next, t) ==
    /\ ops' = [ops EXCEPT ![p] = Append(@, step)]
    /\ failed' = IF r.ok THEN failed ELSE [failed EXCEPT ![p] = step]
    /\ injected' = IF r.ok THEN injected ELSE [injected EXCEPT ![p] = r.fault]
    /\ pc' = IF r.ok THEN [pc EXCEPT ![p] = next] ELSE pc
    /\ tmp' = t
    /\ UNCHANGED <<exitCode, out>>

\* `call?` in main: r is the call's result, t the temporary directories after
\* the call.  Err returns from main: the error is printed, the TempDir (if one
\* is held) is dropped and the process exits with main's failure code.
Question(p, step, r, next, t) ==
    /\ ops' = [ops EXCEPT ![p] = Append(@, step)]
    /\ failed' = IF r.ok THEN failed ELSE [failed EXCEPT ![p] = step]
    /\ injected' = IF r.ok THEN injected ELSE [injected EXCEPT ![p] = r.fault]
    /\ IF IsErr(r)
       THEN /\ pc' = [pc EXCEPT ![p] = "done"]
            /\ exitCode' = [exitCode EXCEPT ![p] = MainExitCode(FALSE)]
            /\ out' = [out EXCEPT ![p] = Append(@, "error")]
            /\ tmp' = DropTempDir(t, tmpDir[p])
       ELSE /\ pc' = [pc EXCEPT ![p] = next]
            /\ tmp' = t
            /\ UNCHANGED <<exitCode, out>>

\* main.rs 19-20
CurrentExe(p) ==
    /\ pc[p] = "current_exe"
    /\ \E ok \in BOOLEAN :
          Question(p, "current_exe", [ok |-> ok, fault |-> ~ok], "exists", tmp)
    /\ UNCHANGED <<wrote, run, args, tmpDir, argv, child, childCode, before, atLaunch,
                   ws, runs>>

\* main.rs 22-24
CheckExists(p) ==
    /\ pc[p] = "exists"
    /\ ops' = [ops EXCEPT ![p] = Append(@, "exists")]
    /\ IF ReportDirExists(ws)
       THEN /\ out' = [out EXCEPT ![p] = Append(@, "cleaning")]
            /\ pc' = [pc EXCEPT ![p] = "remove_dir_all"]
       ELSE /\ pc' = [pc EXCEPT ![p] = "create_dir_all"]
            /\ out' = out
    /\ UNCHANGED <<wrote, run, args, failed, injected, exitCode, tmpDir, argv, child,
                   childCode, before, atLaunch, ws, tmp, runs>>

RemoveReportDirLocked(p) ==
    /\ pc[p] = "remove_dir_all"
    /\ \A q \in Procs \ {p} : child[q] # "running"
    /\ \E r \in RemoveDirAll(ws) :
          /\ ws' = r.ws
          /\ Question(p, "remove_dir_all", r, "create_dir_all", tmp)
    /\ UNCHANGED <<wrote, run, args, tmpDir, argv, child, childCode, before, atLaunch,
                   runs>>

\* main.rs 25
RemoveReportDir(p) ==
    /\ pc[p] = "remove_dir_all"
    /\ \E r \in RemoveDirAll(ws) :
          /\ ws' = r.ws
          /\ Question(p, "remove_dir_all", r, "create_dir_all", tmp)
    /\ UNCHANGED <<wrote, run, args, tmpDir, argv, child, childCode, before, atLaunch,
                   runs>>

\* main.rs 27
CreateReportDir(p) ==
    /\ pc[p] = "create_dir_all"
    /\ \E r \in CreateDirAll(ws) :
          /\ ws' = r.ws
          /\ Question(p, "create_dir_all", r, "tempdir", tmp)
    /\ UNCHANGED <<wrote, run, args, tmpDir, argv, child, childCode, before, atLaunch,
                   runs>>

\* main.rs 29-30
MakeTempDir(p) ==
    /\ pc[p] = "tempdir"
    /\ \E r \in TempDir(tmp) :
          /\ tmpDir' = [tmpDir EXCEPT ![p] = r.dir]
          /\ Question(p, "tempdir", r, "file_create", r.tmp)
    /\ UNCHANGED <<wrote, run, args, argv, child, childCode, before, atLaunch, ws, runs>>

\* main.rs 32
CreateProfilerFile(p) ==
    /\ pc[p] = "file_create"
    /\ \E r \in FileCreate(tmp, tmpDir[p]) :
          Question(p, "file_create", r, "write_all", r.tmp)
    /\ UNCHANGED <<wrote, run, args, tmpDir, argv, child, childCode, before, atLaunch,
                   ws, runs>>

\* main.rs 33-34
WriteProfilerFile(p) ==
    /\ pc[p] = "write_all"
    /\ \E r \in WriteAll(tmp, tmpDir[p], PROFILER_PY) :
          Question(p, "write_all", r, "command", r.tmp)
    /\ UNCHANGED <<wrote, run, args, tmpDir, argv, child, childCode, before, atLaunch,
                   ws, runs>>

\* main.rs 36-56
BuildCommand(p) ==
    /\ pc[p] = "command"
    /\ ops' = [ops EXCEPT ![p] = Append(@, "command")]
    /\ argv' = [argv EXCEPT ![p] = CmdArgs(args[p], tmpDir[p])]
    /\ out' = [out EXCEPT ![p] = Append(@, "running")]
    /\ pc' = [pc EXCEPT ![p] = "status"]
    /\ UNCHANGED <<wrote, run, args, failed, injected, exitCode, tmpDir, child,
                   childCode, before, atLaunch, ws, tmp, runs>>

\* main.rs 58: cmd.status() starts the child, or returns Err.
Spawn(p) ==
    /\ pc[p] = "status"
    /\ \E ok \in BOOLEAN :
          /\ Question(p, "status", [ok |-> ok, fault |-> ~ok], "wait", tmp)
          /\ child' = [child EXCEPT ![p] = IF ok THEN "running" ELSE @]
          /\ atLaunch' = [atLaunch EXCEPT ![p] = IF ok THEN ws ELSE @]
    /\ UNCHANGED <<wrote, run, args, tmpDir, argv, childCode, before, ws, runs>>

\* The child (python running the staged profiler) writes into the report
\* directory it was given.
ChildWrite(p) ==
    /\ child[p] = "running"
    /\ ws.kind = "dir"
    /\ \E n \in Names :
          /\ ws.files[n] # run[p]
          /\ ws' = [ws EXCEPT !.files[n] = run[p]]
          /\ wrote' = [wrote EXCEPT ![p] = @ \cup {n}]
    /\ UNCHANGED <<procVars, tmp, runs>>

\* The child exits with a code.
ChildExit(p) ==
    /\ child[p] = "running"
    /\ \E c \in ChildCodes :
          /\ child' = [child EXCEPT ![p] = "exited"]
          /\ childCode' = [childCode EXCEPT ![p] = c]
    /\ UNCHANGED <<ops, wrote, pc, run, args, failed, injected, exitCode, tmpDir, argv, out,
                   before, atLaunch, ws, tmp, runs>>

\* The child is killed by a signal: it has no exit code.
ChildSignal(p) ==
    /\ child[p] = "running"
    /\ child' = [child EXCEPT ![p] = "signaled"]
    /\ UNCHANGED <<ops, wrote, pc, run, args, failed, injected, exitCode, tmpDir, argv,
                   childCode, out, before, atLaunch, ws, tmp, runs>>

\* main.rs 58-73: cmd.status() returns the child's status; a failure exits
\* through std::process::exit, which runs no destructors; success returns
\* Ok(()) from main, which drops the TempDir.
Report(p) ==
    /\ pc[p] = "wait"
    /\ child[p] \in {"exited", "signaled"}
    /\ ops' = [ops EXCEPT ![p] = Append(@, "wait")]
    /\ IF ~StatusSuccess(child[p], childCode[p])
       THEN /\ out' = [out EXCEPT ![p] = Append(@, "target_exited")]
            /\ exitCode' = [exitCode EXCEPT ![p] =
                              ProcessExit(FailureExitCode(child[p], childCode[p]))]
            /\ tmp' = tmp
       ELSE /\ out' = [out EXCEPT ![p] = Append(@, "complete")]
            /\ exitCode' = [exitCode EXCEPT ![p] = MainExitCode(TRUE)]
            /\ tmp' = DropTempDir(tmp, tmpDir[p])
    /\ ws' = ReportDirAfterStatus(ws, StatusSuccess(child[p], childCode[p]))
    /\ pc' = [pc EXCEPT ![p] = "done"]
    /\ UNCHANGED <<wrote, run, args, failed, injected, tmpDir, argv, child, childCode,
                   before, atLaunch, runs>>

Step(p) ==
    \/ Begin(p)
    \/ CheckArgs(p)
    \/ CurrentExe(p)
    \/ CheckExists(p)
    \/ RemoveReportDir(p)
    \/ CreateReportDir(p)
    \/ MakeTempDir(p)
    \/ CreateProfilerFile(p)
    \/ WriteProfilerFile(p)
    \/ BuildCommand(p)
    \/ Spawn(p)
    \/ ChildWrite(p)
    \/ ChildExit(p)
    \/ ChildSignal(p)
    \/ Report(p)

\* One harness at a time: each invocation begins after the previous one has
\* terminated.
Next == Step(Harness)

Spec == Init /\ [][Next]_vars

\* Harness processes started independently of each other: nothing in main
\* waits for, or knows of, another invocation.
InitConc == Init /\ ws \in ConcWorkspaces

ChildWriteConc(p) == ChildWrite(p) /\ wrote'[p] \subseteq ConcNames

ChildExitConc(p) == ChildExit(p) /\ childCode'[p] \in ConcChildCodes

ConcStep(p) ==
    \/ BeginConcurrent(p)
    \/ CheckArgs(p)
    \/ CurrentExe(p)
    \/ CheckExists(p)
    \/ RemoveReportDir(p)
    \/ CreateReportDir(p)
    \/ MakeTempDir(p)
    \/ CreateProfilerFile(p)
    \/ WriteProfilerFile(p)
    \/ BuildCommand(p)
    \/ Spawn(p)
    \/ ChildWriteConc(p)
    \/ ChildExitConc(p)
    \/ ChildSignal(p)
    \/ Report(p)

ConcNext == \E p \in ConcProcs : ConcStep(p)

SpecConc == InitConc /\ [][ConcNext]_vars

\* ------------------------------------------------------------ properties
Printed(p, msg) == \E i \in 1..Len(out[p]) : out[p][i] = msg

LastPrinted(p) == IF out[p] = <<>> THEN "" ELSE out[p][Len(out[p])]

\* w holds no file that was in the report directory when p's run began.
NoPreRunContent(p, w) ==
    \A n \in Names : w.files[n] = NoFile \/ w.files[n] # before[p].files[n]

\* C1: when the child was started and exited with code n, the harness
\* terminates with exit code n: 0 after the completion banner, n after the
\* failure banner when n # 0.
C1_ExitCodeFidelity ==
    \A p \in Procs :
        (pc[p] = "done" /\ child[p] = "exited") =>
            /\ exitCode[p] = childCode[p]
            /\ LastPrinted(p) = IF childCode[p] = 0 THEN "complete" ELSE "target_exited"

C1_Witness ==
    \E p \in Procs :
        /\ pc[p] = "done" /\ child[p] = "exited"
        /\ childCode[p] = MaxExitStatus /\ exitCode[p] = MaxExitStatus

\* C2: after the harness has terminated, the staging directory it created
\* does not exist, whatever the outcome of the run.
C2_StagingDirGone ==
    \A p \in Procs :
        (pc[p] = "done" /\ tmpDir[p] \in TmpNames) => ~tmp[tmpDir[p]].exists

\* C3: an invocation with no argument beyond the program name stops at the
\* argument check with exit code 2: the report directory is as it was, no
\* temporary directory is created, no call is made and no child is started.
C3_UsageNoSideEffects ==
    \A p \in Procs :
        Len(args[p]) = 1 =>
            /\ pc[p] \in {"args", "done"}
            /\ pc[p] = "done" => exitCode[p] = 2 /\ out[p] = <<"usage">>
            /\ ws = before[p]
            /\ tmpDir[p] = NoDir
            /\ child[p] = "none"
            /\ failed[p] = "none"

C3_Witness ==
    \E p \in Procs :
        /\ Len(args[p]) = 1 /\ pc[p] = "done" /\ exitCode[p] = 2
        /\ ws.kind = "dir" /\ \E n \in Names : ws.files[n] # NoFile

\* C4: when the child starts, the report directory exists as a directory and
\* holds nothing that was there before the run began.
C4_CleanSlateAtLaunch ==
    \A p \in Procs :
        child[p] # "none" =>
            /\ atLaunch[p].kind = "dir"
            /\ NoPreRunContent(p, atLaunch[p])

C4_Witness ==
    \E p \in Procs :
        /\ child[p] = "running"
        /\ before[p].kind = "dir"
        /\ \A n \in Names : before[p].files[n] # NoFile

\* C5: the arguments given to the interpreter are the staged profiler's path,
\* "--report-dir", the report directory, "--", and then the target script and
\* all target arguments as they were passed, in order.
C5_ArgvExact ==
    \A p \in Procs :
        /\ child[p] # "none" => argv[p] # <<>>
        /\ argv[p] # <<>> =>
              /\ tmpDir[p] \in TmpNames
              /\ argv[p] = <<ProfilerPath(tmpDir[p]), "--report-dir", ReportDir, "--">>
                             \o SubSeq(args[p], 2, Len(args[p]))

C5_Witness ==
    \E p \in Procs :
        /\ child[p] = "running"
        /\ Len(args[p]) = 4
        /\ args[p][3] # args[p][4]
        /\ Len(argv[p]) = 7

\* C6: when the child was killed by a signal, the harness terminates with
\* exit code 1.
C6_SignalFallback ==
    \A p \in Procs :
        (pc[p] = "done" /\ child[p] = "signaled") => exitCode[p] = 1

C6_Witness ==
    \E p \in Procs : pc[p] = "done" /\ child[p] = "signaled" /\ exitCode[p] = 1

\* C7: in a run that follows another one, from the start of its child on, the
\* report directory holds only what this run's child wrote.
C7_SecondRunOnly ==
    \A p \in Procs :
        (run[p] >= 2 /\ child[p] # "none") =>
            /\ ws.kind = "dir"
            /\ \A n \in Names : ws.files[n] \in {NoFile, run[p]}

C7_Witness ==
    \E p \in Procs :
        /\ run[p] = 2 /\ pc[p] = "done"
        /\ \E n \in Names : before[p].files[n] = 1 /\ ws.files[n] = NoFile
        /\ \E n \in Names : ws.files[n] = 2

\* C8: when removing or creating the report directory, creating the temporary
\* directory, or creating or writing the staged file fails, main has returned:
\* no command was built and no child was started.
C8_AbortBeforeLaunch ==
    \A p \in Procs :
        failed[p] \in {"remove_dir_all", "create_dir_all", "tempdir",
                       "file_create", "write_all"} =>
            /\ pc[p] = "done"
            /\ child[p] = "none"
            /\ argv[p] = <<>>

C8_Witness ==
    \E p \in Procs :
        /\ failed[p] = "write_all" /\ pc[p] = "done" /\ child[p] = "none"
        /\ exitCode[p] = 1

\* C9: in a valid invocation without an I/O fault in the reset, the cleaning
\* notice is printed exactly when the report path existed, and a path that
\* existed, as a regular file or as a directory, is removed and recreated as a
\* directory.
WorkspaceFault(p) ==
    injected[p] /\ failed[p] \in {"remove_dir_all", "create_dir_all"}

C9_ExistingPathReset ==
    \A p \in Procs :
        (/\ pc[p] = "done"
         /\ ~UsageError(args[p])
         /\ failed[p] # "current_exe"
         /\ ~WorkspaceFault(p)) =>
            /\ Printed(p, "cleaning") <=> before[p].kind # "absent"
            /\ before[p].kind # "absent" =>
                  ws.kind = "dir" /\ NoPreRunContent(p, ws)

\* C10: when a call of a valid invocation returned Err (current_exe, the
\* reset of the report directory, the staging, or the start of the child),
\* the harness terminates with exit code 1.
C10_FatalExitOne ==
    \A p \in Procs :
        (pc[p] = "done" /\ failed[p] # "none") => exitCode[p] = 1

C10_Witness ==
    \E p \in Procs :
        /\ pc[p] = "done" /\ failed[p] = "status" /\ exitCode[p] = 1
        /\ ~UsageError(args[p])

\* C11: when creating or writing the staged file, or starting the child,
\* returned Err, the harness has terminated with the temporary directory it
\* created removed, and nothing after the failing call was executed.
C11_StagingDirRemovedOnAbort ==
    \A p \in Procs :
        failed[p] \in {"file_create", "write_all", "status"} =>
            /\ pc[p] = "done"
            /\ tmpDir[p] \in TmpNames
            /\ ~tmp[tmpDir[p]].exists
            /\ ops[p][Len(ops[p])] = failed[p]
            /\ child[p] = "none"

C11_Witness ==
    \E p \in Procs :
        /\ failed[p] = "status" /\ pc[p] = "done"
        /\ tmpDir[p] \in TmpNames /\ ~tmp[tmpDir[p]].exists

\* C12: the statements of main run in the order argument check, executable
\* location, existence check, removal, creation, temporary directory, file
\* creation, payload write, command, child start, child wait; each at most
\* once, each directly after its predecessor (the removal is skipped when the
\* path did not exist), and none after a call that returned Err.
Order ==
    <<"args", "current_exe", "exists", "remove_dir_all", "create_dir_all",
      "tempdir", "file_create", "write_all", "command", "status", "wait">>

Rank(op) == CHOOSE i \in 1..Len(Order) : Order[i] = op

Follows(a, b) ==
    \/ Rank(b) = Rank(a) + 1
    \/ a = "exists" /\ b = "create_dir_all"

C12_SequentialNoRetry ==
    \A p \in Procs :
        /\ ops[p] # <<>> => ops[p][1] = "args"
        /\ \A i \in 1..(Len(ops[p]) - 1) :
              /\ Follows(ops[p][i], ops[p][i + 1])
              /\ failed[p] # ops[p][i]
        /\ \A i, j \in 1..Len(ops[p]) : i # j => ops[p][i] # ops[p][j]

C12_Witness ==
    \E p \in Procs :
        /\ pc[p] = "done" /\ failed[p] = "none" /\ child[p] # "none"
        /\ ops[p] = Order

C12_WitnessAbort ==
    \E p \in Procs :
        /\ pc[p] = "done" /\ failed[p] = "tempdir"
        /\ ops[p] = <<"args", "current_exe", "exists", "create_dir_all", "tempdir">>

\* C13: while the child runs, the staged file exists in the temporary
\* directory of its harness and holds the embedded payload.
StagedIntact(p) ==
    /\ tmpDir[p] \in TmpNames
    /\ tmp[tmpDir[p]].exists
    /\ tmp[tmpDir[p]].file
    /\ tmp[tmpDir[p]].data = PROFILER_PY

C13_StagedWhileChildRuns ==
    \A p \in Procs : child[p] = "running" => pc[p] = "wait" /\ StagedIntact(p)

C13_Witness ==
    \E p \in Procs : child[p] = "running" /\ wrote[p] # {} /\ StagedIntact(p)

\* C14: once the run has created the report directory, the directory holds
\* exactly what the run's child wrote, up to and after the termination of the
\* harness, whatever the outcome.
ResetDone(p) ==
    /\ \E i \in 1..Len(ops[p]) : ops[p][i] = "create_dir_all"
    /\ failed[p] # "create_dir_all"

ChildFiles(p) == [n \in Names |-> IF n \in wrote[p] THEN run[p] ELSE NoFile]

C14_WorkspaceKeptAfterReset ==
    \A p \in Procs : ResetDone(p) => ws = Dir(ChildFiles(p))

C14_Witness ==
    \E p \in Procs :
        /\ pc[p] = "done" /\ child[p] = "exited" /\ childCode[p] # 0
        /\ wrote[p] = Names /\ ws = Dir(ChildFiles(p))

C14_WitnessLaunchFailure ==
    \E p \in Procs :
        pc[p] = "done" /\ failed[p] = "status" /\ ws = EmptyDir

\* C17: the harness has terminated with exit code 0 exactly when it printed
\* the completion banner, and exactly when its child was started and exited
\* with code 0, whether or not the child wrote the report files.
C17_SuccessIffChildZero ==
    \A p \in Procs :
        pc[p] = "done" =>
            /\ exitCode[p] = 0 <=> (child[p] = "exited" /\ childCode[p] = 0)
            /\ Printed(p, "complete") <=> exitCode[p] = 0

C17_Witness ==
    \E p \in Procs :
        /\ pc[p] = "done" /\ exitCode[p] = 0 /\ Printed(p, "complete")
        /\ wrote[p] = {}
        /\ \A n \in Names : ws.files[n] = NoFile

C17_WitnessFailureWithArtifacts ==
    \E p \in Procs :
        /\ pc[p] = "done" /\ exitCode[p] # 0 /\ ~Printed(p, "complete")
        /\ child[p] = "exited" /\ wrote[p] = Names

\* C15: invocations that overlap are not coordinated: while the child of one
\* runs, the existence check of another is not held back, and neither is its
\* removal of the report directory, which deletes what that child wrote.
C15_ResetNotCoordinated ==
    \A p, q \in Procs :
        (p # q /\ child[p] = "running") =>
            /\ pc[q] = "exists" => ENABLED CheckExists(q)
            /\ (pc[q] = "remove_dir_all" /\ ws.kind = "dir") =>
                  ENABLED (RemoveReportDir(q) /\ ws' = Absent)

\* q removed the report directory while p's child, which had written into it,
\* was running.
C15_Witness ==
    \E p, q \in Procs :
        /\ p # q
        /\ child[p] = "running" /\ wrote[p] # {}
        /\ ws.kind = "absent"
        /\ failed[q] = "none"
        /\ pc[q] = "create_dir_all"
        /\ ops[q][Len(ops[q])] = "remove_dir_all"
        /\ ResetDone(p)

\* q's child started in a report directory that held a file of p's child.
C15_WitnessNotEmptyAtLaunch ==
    \E p, q \in Procs :
        /\ p # q /\ child[q] # "none"
        /\ \E n \in Names : atLaunch[q].files[n] = run[p]

\* q's removal failed because p had removed the directory in between.
C15_WitnessResetFails ==
    \E p, q \in Procs :
        /\ p # q /\ failed[q] = "remove_dir_all" /\ ~injected[q]
        /\ before[q].kind = "dir"
        /\ child[p] # "none"

\* C16: two harness processes that hold a temporary directory at the same
\* time hold different ones, and while a child runs the file staged for it
\* is in place, whatever other invocations create or clean up.
Holds(p) == tmpDir[p] \in TmpNames /\ pc[p] # "done"

C16_StagingDirsPrivate ==
    \A p \in Procs :
        /\ \A q \in Procs \ {p} : (Holds(p) /\ Holds(q)) => tmpDir[p] # tmpDir[q]
        /\ child[p] = "running" => StagedIntact(p)

\* q staged, ran its child and cleaned up while p's child was running.
C16_Witness ==
    \E p, q \in Procs :
        /\ p # q
        /\ child[p] = "running" /\ StagedIntact(p)
        /\ pc[q] = "done" /\ child[q] = "exited" /\ childCode[q] = 0
        /\ tmpDir[q] \in TmpNames /\ tmpDir[q] # tmpDir[p]
        /\ ~tmp[tmpDir[q]].exists
        /\ \E n \in Names : atLaunch[q].files[n] = run[p]

====
